---------------------------- MODULE Spec2Model ----------------------------
(***************************************************************************)
(* A model of src/tekstowo_oop.py: the Scraper class (get_artists,         *)
(* get_artist_songs, extract_song, assess_language, save_songs) and the    *)
(* __main__ loop that drives them.                                         *)
(*                                                                         *)
(* A text (a Python str) is a sequence of characters.  A word that the     *)
(* code never looks inside ("piosenka", "dodaj_tekst", an artist's name)   *)
(* is one element of the sequence; white space, "(" and "/" are elements   *)
(* of their own.  The Polish word for "next" is written "nastepna".        *)
(* None and a str are told apart by a tag, as isinstance() does.           *)
(***************************************************************************)
EXTENDS Integers, Sequences, FiniteSets, TLC

-----------------------------------------------------------------------------
(* Bounds of the model. *)

\* pages of one artist the remote site chains with "next" controls
MaxPages == 2
\* song blocks (class "box-przeboje") on one artist page
MaxSongs == 2
\* pagination controls (class "page-link") on one artist page
MaxControls == 2
\* <a> elements on one listing page
MaxLinks == 2
\* largest page limit handed to get_artists
MaxLimit == 2

-----------------------------------------------------------------------------
(* Python values. *)

None == [t |-> "None", v |-> <<>>]
Str(x) == [t |-> "str", v |-> x]
False == [t |-> "bool", v |-> <<>>]
List(x) == [t |-> "list", v |-> x]

\* sub in text
Contains(text, sub) ==
    \E i \in 0..(Len(text) - Len(sub)) : SubSeq(text, i + 1, i + Len(sub)) = sub

IsSpace(c) == c \in {" ", "\t", "\n"}

RECURSIVE LStrip(_)
LStrip(text) ==
    IF text # <<>> /\ IsSpace(Head(text)) THEN LStrip(Tail(text)) ELSE text

RECURSIVE RStrip(_)
RStrip(text) ==
    IF text # <<>> /\ IsSpace(text[Len(text)])
    THEN RStrip(SubSeq(text, 1, Len(text) - 1))
    ELSE text

\* text.strip()
Strip(text) == RStrip(LStrip(text))

\* text.split(sep)[0]
SplitFirst(text, sep) ==
    IF Contains(text, sep)
    THEN LET i == CHOOSE k \in 0..(Len(text) - Len(sep)) :
                      /\ SubSeq(text, k + 1, k + Len(sep)) = sep
                      /\ \A j \in 0..(k - 1) : SubSeq(text, j + 1, j + Len(sep)) # sep
         IN  SubSeq(text, 1, i)
    ELSE text

LowerChar(c) ==
    CASE c = "Nastepna" -> "nastepna"
      [] c = "NASTEPNA" -> "nastepna"
      [] c = "Poprzednia" -> "poprzednia"
      [] OTHER -> c

\* text.lower()
Lower(text) == [i \in DOMAIN text |-> LowerChar(text[i])]

\* "https://tekstowo.pl"
Origin == <<"https://tekstowo", ".pl">>

\* all sequences over S of length at most n
RECURSIVE SeqsUpTo(_, _)
SeqsUpTo(S, n) ==
    IF n = 0 THEN {<<>>}
    ELSE LET shorter == SeqsUpTo(S, n - 1)
         IN  shorter \cup {Append(q, x) : q \in {r \in shorter : Len(r) = n - 1}, x \in S}

NoDuplicates(q) == \A i, j \in DOMAIN q : i # j => q[i] # q[j]

-----------------------------------------------------------------------------
(* What the remote site can answer to a request for an artist page. *)

\* text of the element of class "col-md-7 col-lg-8 px-0"; None: no such element
Headers ==
    { None,
      Str(<<"Abba", " ", "(", "120", ")">>),
      Str(<<" ", "Boys", " ">>) }

\* hrefs of the title links of the song blocks; None: the element has no href
SongHrefs ==
    { None,
      Str(<<"/", "piosenka", ",", "s1">>),
      Str(<<"/", "piosenka", ",", "s2">>),
      Str(<<"piosenka", ",", "s1">>),
      Str(<<"/", "dodaj_tekst", ",", "s1">>) }

SongTitleTexts ==
    { <<" ", "Abba", " ", "-", " ", "x">>,
      <<"Boys", " ", "-", " ", "x">> }

\* a song block: its first element of class "title", or None
SongBlocks ==
    {[text |-> <<>>, title |-> None, href |-> None]}
    \cup {[text |-> x, title |-> Str(<<"a">>), href |-> h] :
              x \in SongTitleTexts, h \in SongHrefs}

ControlLabels ==
    { <<"Nastepna", " ", ">>">>, <<"nastepna">>, <<"2">> }

ControlHrefs ==
    { None, Str(<<"/", "piosenki_", "artysty", ",", "abba", ",strona,", "2">>) }

\* an element of class "page-link"
Controls == [t : {"tag"}, text : ControlLabels, href : ControlHrefs]

\* an empty result of find_all
NoControls == [t |-> "list", text |-> <<>>, href |-> None]

ControlLists == SeqsUpTo(Controls, MaxControls)

\* the last of the controls the site put on a page, if any
SiteLast(controls) ==
    IF controls = <<>> THEN NoControls ELSE controls[Len(controls)]

\* the site's own notion of a "next" control
SiteIsNext(control) ==
    /\ control.t = "tag"
    /\ \E c \in {"nastepna", "Nastepna", "NASTEPNA"} :
           \E i \in DOMAIN control.text : control.text[i] = c

ArtistResponses ==
    {[status |-> "exception"], [status |-> "http_error"], [status |-> "ok"]}

ArtistUrls ==
    { Origin \o <<"/", "piosenki_", "artysty", ",", "abba">>,
      Origin \o <<"/", "piosenki_", "artysty", ",", "boys">> }

-----------------------------------------------------------------------------
VARIABLES
    pc,                \* where the program is
    exc,               \* the exception that ended the program, or "none"
    \* get_artists
    letter,            \* the parameter
    max_page_per_letter, \* the parameter
    limit,             \* its local limit
    page,              \* the loop variable of "for page in range(1, limit + 1)"
    ga_urls,           \* its local urls
    ga_status,         \* how the last request ended
    ga_links,          \* the hrefs of soup.find_all("a") of the last page parsed
    ga_requests,       \* the requests of this call in order: the URL and how it ended
    ga_ret,            \* what the call returned
    \* get_artist_songs
    artist_url,        \* the parameter, reassigned on every "next"
    gas_urls,          \* its local urls
    response,          \* the last response's status
    header,            \* the header element of the page being read, or None
    artist,            \* its local artist
    songs_left,        \* blocks of the page not yet iterated
    song,              \* the block of the last iteration of "for song in songs"
    button_next_page,  \* its local button_next_page at the end of a pass
    fetched,           \* requests sent by this call
    page_log,          \* per page read to its end, the last control the site put on it
    gas_ret,           \* what the call returned
    \* extract_song
    song_url,          \* the parameter
    es_doc,            \* the response to its request
    es_song,           \* its local song
    song_translation,  \* its local song_translation
    song_title,        \* its local song_title, Unbound until assigned
    es_ret,            \* what the call returned
    \* __main__
    ARTIST_LETTER,     \* args.letter
    urls,              \* the artist URLs
    cnt,               \* their number
    url_idx,           \* how many of them the outer loop has taken
    songs,             \* what get_artist_songs returned for the current one
    song_idx,          \* how many of its elements the inner loop has taken
    s,                 \* the lyrics of the current song
    st,                \* its translation
    t,                 \* its title
    s_t,               \* the language of the lyrics
    st_t,              \* the language of the translation
    files,             \* the directory teksty/: file name -> content
    writes,            \* the names of the files opened for writing, in order
    calls,             \* the calls __main__ made for the current artist, in order
    \* max_page_number_lut
    lut_url,           \* the parameter
    lut_status,        \* how its request ended
    lut_pages,         \* the labels of soup.find_all(class_="page-link")
    lut_left,          \* those the for loop has not yet taken
    max_page,          \* its local max_page
    lut_ret,           \* what the call returned
    \* the world outside
    io                 \* what the last step did to it: sleeps, requests,
                       \* classifier calls, files opened

vars == <<pc, exc, letter, max_page_per_letter, limit, page, ga_urls, ga_status,
          ga_links, ga_requests, ga_ret, artist_url, gas_urls, response, header, artist, songs_left,
          song, button_next_page, fetched, page_log, gas_ret,
          song_url, es_doc, es_song, song_translation, song_title, es_ret,
          ARTIST_LETTER, urls, cnt, url_idx, songs, song_idx, s, st, t, s_t, st_t,
          files, writes, calls, lut_url, lut_status, lut_pages, lut_left, max_page, lut_ret, io>>

gaVars == <<letter, max_page_per_letter, limit, page, ga_urls, ga_status,
            ga_links, ga_requests, ga_ret>>

gasVars == <<artist_url, gas_urls, response, header, artist, songs_left,
             song, button_next_page, fetched, page_log, gas_ret>>

esVars == <<song_url, es_doc, es_song, song_translation, song_title, es_ret>>

mainVars == <<ARTIST_LETTER, urls, cnt, url_idx, songs, song_idx, s, st, t, s_t, st_t,
              files, writes, calls>>

lutVars == <<lut_url, lut_status, lut_pages, lut_left, max_page, lut_ret>>

NoSong == [text |-> <<>>, title |-> None, href |-> None]

\* what a step does to the world outside, as elements of io
\* time.sleep(seconds) in the function named by
Sleep(by, seconds) == [by |-> by, op |-> "sleep", arg |-> <<seconds>>]
\* requests.get(url, timeout=60)
RequestsGet(by, url) == [by |-> by, op |-> "get", arg |-> <<url>>]
\* langdetect.detect(text) and what it did
LangdetectDetect(text, outcome) ==
    [by |-> "assess_language", op |-> "detect", arg |-> <<text, outcome>>]
\* open(save_dir + name, "w")
Open(name) == [by |-> "save_songs", op |-> "open", arg |-> <<name>>]

\* a call made by __main__
Call(fn, args) == [fn |-> fn, args |-> args]

\* the variables of a call of max_page_number_lut not yet made
LutIdle ==
    /\ lut_url = <<>>
    /\ lut_status = "none"
    /\ lut_pages = <<>>
    /\ lut_left = <<>>
    /\ max_page = 0
    /\ lut_ret = None

-----------------------------------------------------------------------------
(* get_artists *)

PyInt(n) == [t |-> "int", v |-> n]
Dict(f) == [t |-> "dict", v |-> f]
Tuple(x) == [t |-> "tuple", v |-> x]

Letters == {"A", "Q"}

\* hrefs of the <a> elements of a listing page; None: the element has no href
ListingHrefs ==
    { None,
      Str(<<"/", "piosenki_", "artysty", ",", "abba">>),
      Str(<<"/", "piosenki_", "artysty", ",", "boys">>),
      Str(<<"/", "kontakt">>) }

ListingResponses ==
    {[status |-> "exception", links |-> <<>>]}
    \cup [status : {"not_ok", "ok"}, links : SeqsUpTo(ListingHrefs, MaxLinks)]

\* values a caller may store in the mapping
LimitValues == {PyInt(1), Str(<<"2">>)}

\* what a caller may pass as max_page_per_letter
PageLimits ==
    {PyInt(n) : n \in (-1)..MaxLimit}
    \cup {Dict(f) : f \in UNION {[keys -> LimitValues] : keys \in SUBSET Letters}}
    \cup {None, Str(<<"2">>)}

\* the state in which the body of get_artists(l, m) starts
GaEntry(l, m) ==
    /\ letter' = l
    /\ max_page_per_letter' = m
    /\ limit' = None
    /\ page' = 0
    /\ ga_urls' = <<>>
    /\ ga_status' = "none"
    /\ ga_links' = <<>>
    /\ ga_requests' = <<>>
    /\ ga_ret' = None
    /\ pc' = "ga_limit"

\* the exception of max_page_per_letter[letter] for a mapping without the letter
MissingKeyError == "KeyError"

\* the argument checks before the loop: limit, or the exception raised
Limit(l, m) ==
    IF m.t = "dict"
    THEN IF l \in DOMAIN m.v
         THEN [exc |-> "none", limit |-> m.v[l]]
         ELSE [exc |-> MissingKeyError, limit |-> None]
    ELSE IF m.t = "int"
         THEN [exc |-> "none", limit |-> m]
         ELSE [exc |-> "ValueError", limit |-> None]

\* from the first line of the body to the first evaluation of
\* range(1, limit + 1), which fails for a limit that is no number
GaLimit ==
    /\ pc = "ga_limit"
    /\ LET r == Limit(letter, max_page_per_letter)
       IN  /\ limit' = r.limit
           /\ IF r.exc # "none"
              THEN /\ exc' = r.exc
                   /\ pc' = "raised"
                   /\ UNCHANGED page
              ELSE IF r.limit.t # "int"
                   THEN /\ exc' = "TypeError"
                        /\ pc' = "raised"
                        /\ UNCHANGED page
                   ELSE /\ page' = 1
                        /\ pc' = "ga_loop"
                        /\ UNCHANGED exc
    /\ UNCHANGED <<letter, max_page_per_letter, ga_urls, ga_status, ga_links,
                   ga_requests, ga_ret>>
    /\ UNCHANGED <<gasVars, esVars, mainVars>>
    /\ io' = <<>>
    /\ UNCHANGED lutVars

\* f"https://www.tekstowo.pl/artysci_na,{letter},strona,{page}.html"
ListingUrl(l, p) ==
    <<"https://www.tekstowo", ".pl", "/", "artysci_na", ",", l, ",strona,",
      ToString(p), ".html">>

\* isinstance(item, str) and "piosenki_" in item
IsArtistLink(item) == item.t = "str" /\ Contains(item.v, <<"piosenki_">>)

\* the urls appended by "for link in soup.find_all("a")"
RECURSIVE ArtistLinks(_)
ArtistLinks(links) ==
    IF links = <<>> THEN <<>>
    ELSE (IF IsArtistLink(Head(links)) THEN <<Origin \o Head(links).v>> ELSE <<>>)
         \o ArtistLinks(Tail(links))

\* what a response adds to urls when response.ok is not looked at
PageUrlsOfAnyStatus(r) == IF r.status # "exception" THEN ArtistLinks(r.links) ELSE <<>>

\* what a response adds to urls
PageUrls(r) == IF r.status = "ok" THEN ArtistLinks(r.links) ELSE <<>>

\* time.sleep(2)
ListingDelay == 2

\* what one iteration does to the world: the delay, then the request
GaPageIo(l, p) ==
    <<Sleep("get_artists", ListingDelay), RequestsGet("get_artists", ListingUrl(l, p))>>

\* one iteration of "for page in range(1, limit + 1)"
GaPage(responses) ==
    /\ pc = "ga_loop"
    /\ page <= limit.v
    /\ \E r \in responses :
         /\ ga_requests' = Append(ga_requests,
                                  [status |-> r.status, url |-> ListingUrl(letter, page)])
         /\ ga_status' = r.status
         /\ ga_links' = IF r.status = "ok" THEN r.links ELSE ga_links
         /\ ga_urls' = ga_urls \o PageUrls(r)
    /\ page' = page + 1
    /\ UNCHANGED <<pc, exc, letter, max_page_per_letter, limit, ga_ret>>
    /\ UNCHANGED <<gasVars, esVars, mainVars>>
    /\ io' = GaPageIo(letter, page)
    /\ UNCHANGED lutVars

\* return urls, len(urls)
GaReturn ==
    /\ pc = "ga_loop"
    /\ page > limit.v
    /\ ga_ret' = Tuple(<<List(ga_urls), PyInt(Len(ga_urls))>>)
    /\ pc' = "ga_done"
    /\ UNCHANGED <<exc, letter, max_page_per_letter, limit, page, ga_urls, ga_status,
                   ga_links, ga_requests>>
    /\ UNCHANGED <<gasVars, esVars, mainVars>>
    /\ io' = <<>>
    /\ UNCHANGED lutVars

\* the variables of a call not yet made
GaIdle ==
    /\ letter = "Q"
    /\ max_page_per_letter = None
    /\ limit = None
    /\ page = 0
    /\ ga_urls = <<>>
    /\ ga_status = "none"
    /\ ga_links = <<>>
    /\ ga_requests = <<>>
    /\ ga_ret = None

GasIdle ==
    /\ artist_url = <<>>
    /\ gas_urls = <<>>
    /\ response = "none"
    /\ header = None
    /\ artist = <<>>
    /\ songs_left = 0
    /\ song = NoSong
    /\ button_next_page = NoControls
    /\ fetched = 0
    /\ page_log = <<>>
    /\ gas_ret = None

EsIdle ==
    /\ song_url = <<>>
    /\ es_doc = [title |-> None, status |-> "none", lyrics |-> None, transl |-> None]
    /\ es_song = Str(<<>>)
    /\ song_translation = None
    /\ song_title = None
    /\ es_ret = None

\* an empty directory
NoFiles == [n \in {} |-> <<>>]

MainIdle ==
    /\ ARTIST_LETTER = "Q"
    /\ urls = <<>>
    /\ cnt = 0
    /\ url_idx = 0
    /\ songs = None
    /\ song_idx = 0
    /\ s = None
    /\ st = None
    /\ t = None
    /\ s_t = None
    /\ st_t = None
    /\ files = NoFiles
    /\ writes = <<>>
    /\ calls = <<>>

\* get_artists called on its own
InitArtists ==
    /\ pc = "ga_limit"
    /\ exc = "none"
    /\ letter \in Letters
    /\ max_page_per_letter \in PageLimits
    /\ limit = None
    /\ page = 0
    /\ ga_urls = <<>>
    /\ ga_status = "none"
    /\ ga_links = <<>>
    /\ ga_requests = <<>>
    /\ ga_ret = None
    /\ GasIdle
    /\ EsIdle
    /\ MainIdle
    /\ LutIdle
    /\ io = <<>>

NextArtists == GaLimit \/ GaPage(ListingResponses) \/ GaReturn

SpecArtists == InitArtists /\ [][NextArtists]_vars

-----------------------------------------------------------------------------
(* max_page_number_lut *)

\* the characters 0 to 9
Digits == {"0", "1", "2", "3", "4", "5", "6", "7", "8", "9"}

\* the characters str.isnumeric() accepts: the digits and, among others,
\* U+00B2 SUPERSCRIPT TWO, written "sup2" here
NumericChars == Digits \cup {"sup2"}

\* page.text.isnumeric()
IsNumeric(text) == text # <<>> /\ \A i \in DOMAIN text : text[i] \in NumericChars

DigitValue(c) ==
    CASE c = "0" -> 0 [] c = "1" -> 1 [] c = "2" -> 2 [] c = "3" -> 3 [] c = "4" -> 4
      [] c = "5" -> 5 [] c = "6" -> 6 [] c = "7" -> 7 [] c = "8" -> 8 [] c = "9" -> 9

\* the number written by a text of digits
RECURSIVE Decimal(_)
Decimal(text) ==
    IF text = <<>> THEN 0
    ELSE 10 * Decimal(SubSeq(text, 1, Len(text) - 1)) + DigitValue(text[Len(text)])

\* int(page.text) of a text that isnumeric() accepted: the number, or the
\* ValueError for a character that is no decimal digit
IntOf(text) ==
    IF \A i \in DOMAIN text : text[i] \in Digits
    THEN [v |-> Decimal(text), exc |-> "none"]
    ELSE [v |-> 0, exc |-> "ValueError"]

\* texts of the elements of class "page-link" of a letter's listing
PageLabels ==
    { <<"2">>, <<"5">>, <<"9">>, <<"1", "0">>, <<"nastepna">>, <<"sup2">> }

\* what find_all(class_="page-link") can give
PageLabelLists == SeqsUpTo(PageLabels, MaxControls)

\* how the request can end: an exception of requests.get, a status that
\* raise_for_status() turns into HTTPError, a response
LutStatuses == {"exception", "http_error", "ok"}

\* f"https://www.tekstowo.pl/artysci_na,{ltr}.html"
LutUrls == {<<"https://www.tekstowo", ".pl", "/", "artysci_na", ",", l, ".html">> : l \in Letters}

\* max_page = 0, the try statement, the parse, up to the for loop
LutFetch ==
    /\ pc = "lut_call"
    /\ max_page' = 0
    /\ \E status \in LutStatuses :
         /\ lut_status' = status
         /\ IF status # "ok"
            THEN /\ lut_ret' = PyInt(0)
                 /\ pc' = "lut_done"
                 /\ UNCHANGED <<lut_pages, lut_left>>
            ELSE \E labels \in PageLabelLists :
                   /\ lut_pages' = labels
                   /\ lut_left' = labels
                   /\ pc' = "lut_loop"
                   /\ UNCHANGED lut_ret
    /\ io' = <<RequestsGet("max_page_number_lut", lut_url)>>
    /\ UNCHANGED <<exc, lut_url, gaVars, gasVars, esVars, mainVars>>

\* one iteration of "for page in soup.find_all(class_="page-link")"
LutPage ==
    /\ pc = "lut_loop"
    /\ lut_left # <<>>
    /\ lut_left' = Tail(lut_left)
    /\ LET text == Head(lut_left)
       IN  IF ~IsNumeric(text)
           THEN UNCHANGED <<pc, exc, max_page>>
           ELSE IF IntOf(text).exc # "none"
                THEN /\ exc' = IntOf(text).exc
                     /\ pc' = "raised"
                     /\ UNCHANGED max_page
                ELSE /\ max_page' = IF IntOf(text).v > max_page THEN IntOf(text).v
                                    ELSE max_page
                     /\ UNCHANGED <<pc, exc>>
    /\ io' = <<>>
    /\ UNCHANGED <<lut_url, lut_status, lut_pages, lut_ret, gaVars, gasVars, esVars, mainVars>>

\* return max_page
LutReturn ==
    /\ pc = "lut_loop"
    /\ lut_left = <<>>
    /\ lut_ret' = PyInt(max_page)
    /\ pc' = "lut_done"
    /\ io' = <<>>
    /\ UNCHANGED <<exc, lut_url, lut_status, lut_pages, lut_left, max_page, gaVars, gasVars,
                   esVars, mainVars>>

\* max_page_number_lut called on its own
InitLut ==
    /\ pc = "lut_call"
    /\ exc = "none"
    /\ GaIdle
    /\ GasIdle
    /\ EsIdle
    /\ MainIdle
    /\ lut_url \in LutUrls
    /\ lut_status = "none"
    /\ lut_pages = <<>>
    /\ lut_left = <<>>
    /\ max_page = 0
    /\ lut_ret = None
    /\ io = <<>>

NextLut == LutFetch \/ LutPage \/ LutReturn

SpecLut == InitLut /\ [][NextLut]_vars

-----------------------------------------------------------------------------
(* get_artist_songs *)

\* the state in which the body of get_artist_songs(url) starts
GasEntry(url) ==
    /\ artist_url' = url
    /\ gas_urls' = <<>>
    /\ response' = "none"
    /\ header' = None
    /\ artist' = <<>>
    /\ songs_left' = 0
    /\ song' = NoSong
    /\ button_next_page' = NoControls
    /\ fetched' = 0
    /\ page_log' = <<>>
    /\ gas_ret' = None
    /\ pc' = "gas_fetch"

\* a failure that hands back what was collected so far
GasFailedReturnsUrls ==
    /\ gas_ret' = List(gas_urls)
    /\ pc' = "gas_done"

\* "return False" of either except clause
GasFailed ==
    /\ gas_ret' = False
    /\ pc' = "gas_done"

\* artist.text.split(" (")[0].strip()
ArtistName(text) == Strip(SplitFirst(text, <<" ", "(">>))

\* time.sleep(5)
ArtistDelay == 5

\* a pass that requests the page without waiting first
GasFetchIoNoDelay(url) == <<RequestsGet("get_artist_songs", url)>>

\* what one pass does to the world: the delay, then the request
GasFetchIo(url) ==
    <<Sleep("get_artist_songs", ArtistDelay), RequestsGet("get_artist_songs", url)>>

\* one pass of "while not processed_first_page" up to the for loop:
\* sleep, request, raise_for_status, parse, the artist's name
GasFetch(headers) ==
    /\ pc = "gas_fetch"
    /\ fetched < MaxPages
    /\ fetched' = fetched + 1
    /\ \E r \in ArtistResponses :
         /\ response' = r.status
         /\ IF r.status # "ok"
            THEN /\ GasFailed
                 /\ UNCHANGED <<header, artist, songs_left>>
            ELSE \E h \in headers, n \in 0..MaxSongs :
                   /\ header' = h
                   /\ IF h = None
                      THEN /\ GasFailed
                           /\ UNCHANGED <<artist, songs_left>>
                      ELSE /\ artist' = ArtistName(h.v)
                           /\ songs_left' = n
                           /\ pc' = "gas_songs"
                           /\ UNCHANGED gas_ret
    /\ UNCHANGED <<exc, artist_url, gas_urls, song, button_next_page, page_log>>
    /\ UNCHANGED <<gaVars, esVars, mainVars>>
    /\ io' = GasFetchIo(artist_url)
    /\ UNCHANGED lutVars

\* the innermost if without "song_url not in urls"
AcceptsSeenUrls(u, seen) ==
    /\ ~Contains(u, <<".pl", "piosenka">>)
    /\ ~Contains(u, <<"dodaj_tekst">>)

\* the innermost if without the "dodaj_tekst" test
AcceptsAddLyrics(u, seen) ==
    /\ ~Contains(u, <<".pl", "piosenka">>)
    /\ ~(\E i \in DOMAIN seen : seen[i] = u)

\* the three conditions of the innermost if
Accepts(u, seen) ==
    /\ ~Contains(u, <<".pl", "piosenka">>)
    /\ ~(\E i \in DOMAIN seen : seen[i] = u)
    /\ ~Contains(u, <<"dodaj_tekst">>)

\* one iteration of "for song in songs"
GasSong(blocks) ==
    /\ pc = "gas_songs"
    /\ songs_left > 0
    /\ songs_left' = songs_left - 1
    /\ \E b \in blocks :
         /\ song' = b
         /\ IF b.title # None /\ Contains(Strip(b.text), artist)
            THEN IF b.href = None
                 THEN /\ GasFailed
                      /\ UNCHANGED gas_urls
                 ELSE /\ gas_urls' = IF Accepts(Origin \o b.href.v, gas_urls)
                                     THEN Append(gas_urls, Origin \o b.href.v)
                                     ELSE gas_urls
                      /\ UNCHANGED <<pc, gas_ret>>
            ELSE UNCHANGED <<pc, gas_ret, gas_urls>>
    /\ UNCHANGED <<exc, artist_url, response, header, artist, button_next_page,
                   fetched, page_log>>
    /\ UNCHANGED <<gaVars, esVars, mainVars>>
    /\ io' = <<>>
    /\ UNCHANGED lutVars

\* button_next_page[0]
FirstControl(controls) == controls[1]

\* button_next_page[-1]
LastControl(controls) == controls[Len(controls)]

\* a test that takes every last control for "next"
IsNextOfAnyLabel(control) == TRUE

\* "nastepna" in button_next_page.text.lower()
IsNext(control) == Contains(Lower(control.text), <<"nastepna">>)

\* the end of the pass: find_all(class_="page-link"), then
\* button_next_page = button_next_page[-1] and loop, break or fail;
\* after a break the function returns urls
GasPaginate(lists) ==
    /\ pc = "gas_songs"
    /\ songs_left = 0
    /\ \E controls \in lists :
         /\ fetched = MaxPages => ~SiteIsNext(SiteLast(controls))
         /\ page_log' = Append(page_log, SiteLast(controls))
         /\ IF controls # <<>>
            THEN /\ button_next_page' = LastControl(controls)
                 /\ IF IsNext(LastControl(controls))
                    THEN IF LastControl(controls).href = None
                         THEN /\ GasFailed
                              /\ UNCHANGED artist_url
                         ELSE /\ artist_url' = Origin \o LastControl(controls).href.v
                              /\ pc' = "gas_fetch"
                              /\ UNCHANGED gas_ret
                    ELSE /\ gas_ret' = List(gas_urls)
                         /\ pc' = "gas_done"
                         /\ UNCHANGED artist_url
            ELSE /\ button_next_page' = NoControls
                 /\ gas_ret' = List(gas_urls)
                 /\ pc' = "gas_done"
                 /\ UNCHANGED artist_url
    /\ UNCHANGED <<exc, gas_urls, response, header, artist, songs_left, song, fetched>>
    /\ UNCHANGED <<gaVars, esVars, mainVars>>
    /\ io' = <<>>
    /\ UNCHANGED lutVars

\* get_artist_songs called on its own
InitSongs ==
    /\ pc = "gas_fetch"
    /\ exc = "none"
    /\ GaIdle
    /\ EsIdle
    /\ MainIdle
    /\ LutIdle
    /\ io = <<>>
    /\ artist_url \in ArtistUrls
    /\ gas_urls = <<>>
    /\ response = "none"
    /\ header = None
    /\ artist = <<>>
    /\ songs_left = 0
    /\ song = NoSong
    /\ button_next_page = NoControls
    /\ fetched = 0
    /\ page_log = <<>>
    /\ gas_ret = None

NextSongs == GasFetch(Headers) \/ GasSong(SongBlocks) \/ GasPaginate(ControlLists)

SpecSongs == InitSongs /\ [][NextSongs]_vars

\* the same, for a program that keeps running: every request ends, by a
\* response or by the exception of its timeout, and the interpreter goes on
SpecSongsFair == InitSongs /\ [][NextSongs]_vars /\ WF_vars(NextSongs)

-----------------------------------------------------------------------------
(* extract_song *)

\* a local variable that has not been assigned
Unbound == [t |-> "unbound", v |-> <<>>]

\* n characters of lyrics
Chars(n) == [i \in 1..n |-> "a"]

\* text of the element of class "col-lg-7"; None: no such element
SongTitles ==
    { None,
      Str(<<"\n", "Abba", " ", "-", " ", "x", "\n">>),
      Str(<<"AC", "/", "DC", " ", "-", " ", "y">>),
      Str(<<>>) }

\* text of the element of class "inner-text"; None: no such element
SongLyrics ==
    { None,
      Str(<<>>),
      Str(Chars(10)),
      Str(Chars(11)),
      Str(<<" ">> \o Chars(11) \o <<"\n">>) }

\* text of the div with id "translation"; None: no such element
SongTranslations ==
    { None,
      Str(<<"\n">> \o Chars(11) \o <<"\t", "\t", "x">>),
      Str(Chars(3)) }

NoDocument(status) ==
    [title |-> None, status |-> status, lyrics |-> None, transl |-> None]

SongDocuments(titles, lyrics, translations) ==
    {NoDocument("exception"), NoDocument("not_ok")}
    \cup [title : titles, status : {"ok"}, lyrics : lyrics, transl : translations]

SongUrls ==
    { Origin \o <<"/", "piosenka", ",", "s1">>,
      Origin \o <<"/", "piosenka", ",", "s2">> }

\* the state in which the body of extract_song(url) starts
EsEntry(url) ==
    /\ song_url' = url
    /\ es_doc' = NoDocument("none")
    /\ es_song' = Str(<<>>)
    /\ song_translation' = None
    /\ song_title' = Unbound
    /\ es_ret' = None
    /\ pc' = "es_call"

\* the locals when the try statement is left, by its end or by an exception
\* that the except clause caught
TryBlock(d) ==
    LET start == [song |-> Str(<<>>), song_translation |-> None, song_title |-> Unbound]
    IN  IF d.status # "ok" THEN start
        ELSE IF d.title = None THEN start
        ELSE LET a == [start EXCEPT !.song_title = Str(Strip(d.title.v))]
             IN  IF d.lyrics = None THEN a
                 ELSE LET b == [a EXCEPT !.song = Str(Strip(d.lyrics.v))]
                      IN  IF d.transl = None THEN b
                          ELSE [b EXCEPT !.song_translation =
                                    Str(SplitFirst(Strip(d.transl.v), <<"\t", "\t">>))]

\* what the body does to the world: the request, with no delay before it
ExtractSongIo(url) == <<RequestsGet("extract_song", url)>>

\* the whole body: the request, the try statement, the return statement,
\* which reads song_title
ExtractSong(documents) ==
    /\ pc = "es_call"
    /\ \E d \in documents :
         /\ es_doc' = d
         /\ LET l == TryBlock(d)
            IN  /\ es_song' = l.song
                /\ song_translation' = l.song_translation
                /\ song_title' = l.song_title
                /\ IF l.song_title = Unbound
                   THEN /\ exc' = "UnboundLocalError"
                        /\ pc' = "raised"
                        /\ UNCHANGED es_ret
                   ELSE /\ es_ret' = Tuple(<<l.song, l.song_translation, l.song_title>>)
                        /\ pc' = "es_done"
                        /\ UNCHANGED exc
    /\ UNCHANGED song_url
    /\ UNCHANGED <<gaVars, gasVars, mainVars>>
    /\ io' = ExtractSongIo(song_url)
    /\ UNCHANGED lutVars

\* extract_song called on its own
InitExtract ==
    /\ pc = "es_call"
    /\ exc = "none"
    /\ song_url \in SongUrls
    /\ es_doc = NoDocument("none")
    /\ es_song = Str(<<>>)
    /\ song_translation = None
    /\ song_title = Unbound
    /\ es_ret = None
    /\ GaIdle
    /\ GasIdle
    /\ MainIdle
    /\ LutIdle
    /\ io = <<>>

NextExtract == ExtractSong(SongDocuments(SongTitles, SongLyrics, SongTranslations))

SpecExtract == InitExtract /\ [][NextExtract]_vars

-----------------------------------------------------------------------------
(* assess_language *)

\* langdetect.lang_detect_exception.LangDetectException
LangDetectException == [t |-> "LangDetectException", v |-> <<>>]

\* what langdetect.detect can do with a text: a language code, or the
\* exception, which is all it can do with a text that has no letters
Detect(text) ==
    IF Strip(text) = <<>>
    THEN {LangDetectException}
    ELSE {Str(<<"p", "l">>), Str(<<"z", "h", "-", "c", "n">>), LangDetectException}

\* the outcomes of the classifier for an argument; it is not called for an
\* argument that is no str
Classifier(song_text) ==
    IF song_text.t = "str" THEN Detect(song_text.v) ELSE {None}

\* the value returned when the argument's type is not looked at
AssessLanguageOfAnything(song_text, outcome) ==
    IF outcome = LangDetectException THEN False ELSE outcome

\* the value returned, given what the classifier did
AssessLanguage(song_text, outcome) ==
    IF song_text.t # "str" THEN False
    ELSE IF outcome = LangDetectException THEN False
    ELSE outcome

\* what the call does to the world: the classifier is called for a str only
AssessLanguageIo(song_text, outcome) ==
    IF song_text.t = "str" THEN <<LangdetectDetect(song_text.v, outcome)>> ELSE <<>>

-----------------------------------------------------------------------------
(* save_songs *)

\* True
True == [t |-> "bool", v |-> <<"True">>]

\* the title as it came
CleanTitleUnchanged(title) == title

\* title.replace("/", "-")
CleanTitle(title) == [i \in DOMAIN title |-> IF title[i] = "/" THEN "-" ELSE title[i]]

UpperChar(c) ==
    CASE c = "p" -> "P"
      [] c = "l" -> "L"
      [] c = "z" -> "Z"
      [] c = "h" -> "H"
      [] c = "c" -> "C"
      [] c = "n" -> "N"
      [] OTHER -> c

\* the code as it came
UpperUnchanged(text) == text

\* lang.upper()
Upper(text) == [i \in DOMAIN text |-> UpperChar(text[i])]

\* f"{clean_title}__{lang_base.upper()}.txt"
OriginalFilename(clean_title, lang) == clean_title \o <<"__">> \o Upper(lang) \o <<".txt">>

\* f"{clean_title}__TRAN__{lang_transl.upper()}.txt"
TranslatedFilename(clean_title, lang) ==
    clean_title \o <<"__TRAN__">> \o Upper(lang) \o <<".txt">>

\* isinstance(lang, str) alone
LangIsStr(lang) == lang.t = "str"

\* isinstance(lang, str) and len(lang) < 3, the operands of "and" before len(text)
LangIsCode(lang) == lang.t = "str" /\ Len(lang.v) < 3

\* open(name, "w") and f.write(content)
WriteFile(fs, name, content) ==
    [n \in DOMAIN fs \cup {name} |-> IF n = name THEN content ELSE fs[n]]

\* the body of save_songs from a directory fs and a log of writes: the
\* directory and the log it leaves, and the exception it raises, if any;
\* len(x) of an x that is no str raises TypeError
SaveSongsBody(title, original_song, translated_song, lang_base, lang_transl, fs, log) ==
    LET clean_title == CleanTitle(title.v)
        first ==
            IF LangIsCode(lang_base)
            THEN IF original_song.t # "str"
                 THEN [exc |-> "TypeError", fs |-> fs, log |-> log]
                 ELSE IF Len(original_song.v) > 10
                      THEN LET name == OriginalFilename(clean_title, lang_base.v)
                           IN  [exc |-> "none",
                                fs |-> WriteFile(fs, name, original_song.v),
                                log |-> Append(log, name)]
                      ELSE [exc |-> "none", fs |-> fs, log |-> log]
            ELSE [exc |-> "none", fs |-> fs, log |-> log]
    IN  IF first.exc # "none" THEN first
        ELSE IF LangIsCode(lang_transl)
             THEN IF translated_song.t # "str"
                  THEN [first EXCEPT !.exc = "TypeError"]
                  ELSE IF Len(translated_song.v) > 10
                       THEN LET name == TranslatedFilename(clean_title, lang_transl.v)
                            IN  [exc |-> "none",
                                 fs |-> WriteFile(first.fs, name, translated_song.v),
                                 log |-> Append(first.log, name)]
                       ELSE first
             ELSE first

\* what the call does to the world: the files it opens, which are those it
\* added to the log
SaveSongsIo(log, after) ==
    [i \in 1..(Len(after) - Len(log)) |-> Open(after[Len(log) + i])]

-----------------------------------------------------------------------------
(* __main__ *)

\* the page limit of the call of get_artists
MainPageLimit == 2

\* tekstowo_scraper.get_artists(ARTIST_LETTER, 2) is called
MainGetArtists ==
    /\ pc = "main"
    /\ GaEntry(ARTIST_LETTER, PyInt(MainPageLimit))
    /\ UNCHANGED <<exc, gasVars, esVars, mainVars>>
    /\ io' = <<>>
    /\ UNCHANGED lutVars

\* urls, cnt = the value returned; the outer loop starts
MainGotArtists ==
    /\ pc = "ga_done"
    /\ urls' = ga_ret.v[1].v
    /\ cnt' = ga_ret.v[2].v
    /\ url_idx' = 0
    /\ pc' = "main_for_url"
    /\ UNCHANGED <<exc, gaVars, gasVars, esVars, ARTIST_LETTER, songs, song_idx, s, st, t,
                   s_t, st_t, files, writes>>
    /\ io' = <<>>
    /\ UNCHANGED <<calls, lutVars>>

\* "for url in urls": the next url and the call of get_artist_songs(url), or
\* the end of the program
MainForUrl ==
    /\ pc = "main_for_url"
    /\ IF url_idx < Len(urls)
       THEN /\ url_idx' = url_idx + 1
            /\ GasEntry(urls[url_idx + 1])
       ELSE /\ pc' = "exit"
            /\ UNCHANGED <<url_idx, gasVars>>
    /\ UNCHANGED <<exc, gaVars, esVars, ARTIST_LETTER, urls, cnt, songs, song_idx, s, st, t,
                   s_t, st_t, files, writes>>
    /\ calls' = IF url_idx < Len(urls)
                THEN <<Call("get_artist_songs", <<urls[url_idx + 1]>>)>>
                ELSE calls
    /\ io' = <<>>
    /\ UNCHANGED lutVars

\* iter(x) of "for song in x"
Iterable(x) == x.t \in {"list", "tuple", "str"}

\* songs = the value returned; "for song in songs" starts, which raises
\* TypeError when songs cannot be iterated
MainGotSongs ==
    /\ pc = "gas_done"
    /\ songs' = gas_ret
    /\ IF Iterable(gas_ret)
       THEN /\ song_idx' = 0
            /\ pc' = "main_for_song"
            /\ UNCHANGED exc
       ELSE /\ exc' = "TypeError"
            /\ pc' = "raised"
            /\ UNCHANGED song_idx
    /\ UNCHANGED <<gaVars, gasVars, esVars, ARTIST_LETTER, urls, cnt, url_idx, s, st, t,
                   s_t, st_t, files, writes>>
    /\ io' = <<>>
    /\ UNCHANGED <<calls, lutVars>>

\* "for song in songs": the next song and the call of extract_song(song), or
\* back to the outer loop
MainForSong ==
    /\ pc = "main_for_song"
    /\ IF song_idx < Len(songs.v)
       THEN /\ song_idx' = song_idx + 1
            /\ EsEntry(songs.v[song_idx + 1])
       ELSE /\ pc' = "main_for_url"
            /\ UNCHANGED <<song_idx, esVars>>
    /\ UNCHANGED <<exc, gaVars, gasVars, ARTIST_LETTER, urls, cnt, url_idx, songs, s, st, t,
                   s_t, st_t, files, writes>>
    /\ calls' = IF song_idx < Len(songs.v)
                THEN Append(calls, Call("extract_song", <<songs.v[song_idx + 1]>>))
                ELSE calls
    /\ io' = <<>>
    /\ UNCHANGED lutVars

\* s, st, t = the value returned, and save_songs next, with the languages
\* left by the song before
MainGotSongThenSave ==
    /\ pc = "es_done"
    /\ s' = es_ret.v[1]
    /\ st' = es_ret.v[2]
    /\ t' = es_ret.v[3]
    /\ pc' = "main_save"
    /\ io' = <<>>
    /\ UNCHANGED <<exc, gaVars, gasVars, esVars, ARTIST_LETTER, urls, cnt, url_idx, songs,
                   song_idx, s_t, st_t, files, writes, calls, lutVars>>

\* s, st, t = the value returned
MainGotSong ==
    /\ pc = "es_done"
    /\ s' = es_ret.v[1]
    /\ st' = es_ret.v[2]
    /\ t' = es_ret.v[3]
    /\ pc' = "main_assess_s"
    /\ UNCHANGED <<exc, gaVars, gasVars, esVars, ARTIST_LETTER, urls, cnt, url_idx, songs,
                   song_idx, s_t, st_t, files, writes>>
    /\ io' = <<>>
    /\ UNCHANGED <<calls, lutVars>>

\* s_t = tekstowo_scraper.assess_language(s)
AssessOriginal ==
    /\ pc = "main_assess_s"
    /\ \E outcome \in Classifier(s) :
         /\ s_t' = AssessLanguage(s, outcome)
         /\ io' = AssessLanguageIo(s, outcome)
    /\ calls' = Append(calls, Call("assess_language", <<s>>))
    /\ pc' = "main_assess_st"
    /\ UNCHANGED <<exc, gaVars, gasVars, esVars, ARTIST_LETTER, urls, cnt, url_idx, songs,
                   song_idx, s, st, t, st_t, files, writes>>
    /\ UNCHANGED lutVars

\* st_t = tekstowo_scraper.assess_language(st)
AssessTranslation ==
    /\ pc = "main_assess_st"
    /\ \E outcome \in Classifier(st) :
         /\ st_t' = AssessLanguage(st, outcome)
         /\ io' = AssessLanguageIo(st, outcome)
    /\ calls' = Append(calls, Call("assess_language", <<st>>))
    /\ pc' = "main_save"
    /\ UNCHANGED <<exc, gaVars, gasVars, esVars, ARTIST_LETTER, urls, cnt, url_idx, songs,
                   song_idx, s, st, t, s_t, files, writes>>
    /\ UNCHANGED lutVars

\* tekstowo_scraper.save_songs(t, s, st, s_t, st_t)
SaveSongs ==
    /\ pc = "main_save"
    /\ LET r == SaveSongsBody(t, s, st, s_t, st_t, files, writes)
       IN  /\ files' = r.fs
           /\ writes' = r.log
           /\ IF r.exc = "none"
              THEN /\ pc' = "main_for_song"
                   /\ UNCHANGED exc
              ELSE /\ exc' = r.exc
                   /\ pc' = "raised"
    /\ UNCHANGED <<gaVars, gasVars, esVars, ARTIST_LETTER, urls, cnt, url_idx, songs,
                   song_idx, s, st, t, s_t, st_t>>
    /\ calls' = Append(calls, Call("save_songs", <<t, s, st, s_t, st_t>>))
    /\ io' = SaveSongsIo(writes, writes')
    /\ UNCHANGED lutVars

\* what the site answers during a whole run
MainListingResponses ==
    { [status |-> "exception", links |-> <<>>],
      [status |-> "not_ok", links |-> <<>>],
      [status |-> "ok", links |-> <<Str(<<"/", "piosenki_", "artysty", ",", "abba">>)>>] }

MainHeaders == {None, Str(<<"Abba", " ", "(", "120", ")">>)}

MainSongBlocks ==
    { [text |-> <<"Abba", " ", "-", " ", "x">>, title |-> Str(<<"a">>),
       href |-> Str(<<"/", "piosenka", ",", "s1">>)],
      [text |-> <<"Abba", " ", "-", " ", "x">>, title |-> Str(<<"a">>),
       href |-> Str(<<"/", "piosenka", ",", "s2">>)] }

MainControlLists ==
    { <<>>,
      <<[t |-> "tag", text |-> <<"nastepna">>,
         href |-> Str(<<"/", "piosenki_", "artysty", ",", "abba", ",strona,", "2">>)]>> }

MainSongDocuments ==
    SongDocuments({None, Str(<<"AC", "/", "DC", " ", "-", " ", "y">>)},
                  {None, Str(Chars(11))},
                  {None, Str(<<"\n">> \o Chars(11) \o <<"\t", "\t", "x">>)})

\* the program is started
Init ==
    /\ pc = "main"
    /\ exc = "none"
    /\ GaIdle
    /\ GasIdle
    /\ EsIdle
    /\ ARTIST_LETTER \in Letters
    /\ urls = <<>>
    /\ cnt = 0
    /\ url_idx = 0
    /\ songs = None
    /\ song_idx = 0
    /\ s = None
    /\ st = None
    /\ t = None
    /\ s_t = None
    /\ st_t = None
    /\ files = NoFiles
    /\ writes = <<>>
    /\ calls = <<>>
    /\ LutIdle
    /\ io = <<>>

Next ==
    \/ MainGetArtists
    \/ GaLimit
    \/ GaPage(MainListingResponses)
    \/ GaReturn
    \/ MainGotArtists
    \/ MainForUrl
    \/ GasFetch(MainHeaders)
    \/ GasSong(MainSongBlocks)
    \/ GasPaginate(MainControlLists)
    \/ MainGotSongs
    \/ MainForSong
    \/ ExtractSong(MainSongDocuments)
    \/ MainGotSong
    \/ AssessOriginal
    \/ AssessTranslation
    \/ SaveSongs

Spec == Init /\ [][Next]_vars

-----------------------------------------------------------------------------
(* save_songs called on its own *)

\* titles: without a "/", with one, with two
SaveTitles ==
    {Str(<<"a">>), Str(<<"AC", "/", "DC">>), Str(<<"/", "a", "/">>)}

\* lyrics of 0, 10 and 11 characters
SaveOriginals == {Str(<<>>), Str(Chars(10)), Str(Chars(11))}

\* no translation, or one of 0, 10 and 11 characters
SaveTranslations == {None, Str(<<>>), Str(Chars(10)), Str(Chars(11))}

\* what assess_language returns: False, a code of two characters, a longer one
LanguageResults == {False, Str(<<"p", "l">>), Str(<<"z", "h", "-", "c", "n">>)}

\* save_songs(t, s, st, s_t, st_t) is about to be called on an empty directory
InitSave ==
    /\ pc = "main_save"
    /\ exc = "none"
    /\ GaIdle
    /\ GasIdle
    /\ EsIdle
    /\ LutIdle
    /\ ARTIST_LETTER = "Q"
    /\ urls = <<>>
    /\ cnt = 0
    /\ url_idx = 0
    /\ songs = None
    /\ song_idx = 0
    /\ t \in SaveTitles
    /\ s \in SaveOriginals
    /\ st \in SaveTranslations
    /\ s_t \in LanguageResults
    /\ st_t \in LanguageResults
    /\ files = NoFiles
    /\ writes = <<>>
    /\ calls = <<>>
    /\ io = <<>>

NextSave == SaveSongs

SpecSave == InitSave /\ [][NextSave]_vars

-----------------------------------------------------------------------------
(* assess_language called on its own *)

\* arguments: None, a number, a list, and texts: empty, blank, with letters
AssessArguments ==
    { None, PyInt(3), List(<<>>),
      Str(<<>>), Str(<<" ", "\n">>), Str(Chars(3)), Str(Chars(11)) }

\* assess_language(s) and assess_language(st) are about to be called
InitAssess ==
    /\ pc = "main_assess_s"
    /\ exc = "none"
    /\ GaIdle
    /\ GasIdle
    /\ EsIdle
    /\ LutIdle
    /\ ARTIST_LETTER = "Q"
    /\ urls = <<>>
    /\ cnt = 0
    /\ url_idx = 0
    /\ songs = None
    /\ song_idx = 0
    /\ s \in AssessArguments
    /\ st \in AssessArguments
    /\ t = None
    /\ s_t = None
    /\ st_t = None
    /\ files = NoFiles
    /\ writes = <<>>
    /\ calls = <<>>
    /\ io = <<>>

NextAssess == AssessOriginal \/ AssessTranslation

SpecAssess == InitAssess /\ [][NextAssess]_vars

-----------------------------------------------------------------------------
(* The program run against a site of two artists with one song each. *)

\* the page limit of this run
ScenarioPageLimit == 1

\* get_artists(ARTIST_LETTER, 1) is called
ScenarioGetArtists ==
    /\ pc = "main"
    /\ GaEntry(ARTIST_LETTER, PyInt(ScenarioPageLimit))
    /\ io' = <<>>
    /\ UNCHANGED <<exc, gasVars, esVars, mainVars, lutVars>>

\* the listing page is served and links two artists
ScenarioListingResponses ==
    {r \in ListingResponses : r.status = "ok" /\ Len(ArtistLinks(r.links)) = 2}

\* an artist page is served, with a header and one song block
ScenarioGasFetch ==
    /\ GasFetch(Headers \ {None})
    /\ response' = "ok"
    /\ songs_left' = 1

\* the block links a song of the artist
ScenarioGasSong ==
    /\ GasSong(SongBlocks)
    /\ Len(gas_urls') = 1

\* the pagination controls of the page, none of which reads "next"
ScenarioControlLists ==
    {c \in ControlLists : \A i \in DOMAIN c : ~SiteIsNext(c[i])}

\* a song page is served: a title, lyrics of more than 10 characters, no
\* translation container
ScenarioSongDocuments ==
    {d \in SongDocuments(SongTitles \ {None}, {l \in SongLyrics \ {None} : Len(Strip(l.v)) > 10},
                         {None}) : d.status = "ok"}

\* the classifier finds the lyrics to be Polish
ScenarioAssessOriginal ==
    /\ AssessOriginal
    /\ s_t' = Str(<<"p", "l">>)

InitScenario ==
    /\ Init
    /\ ARTIST_LETTER = "A"

NextScenario ==
    \/ ScenarioGetArtists
    \/ GaLimit
    \/ GaPage(ScenarioListingResponses)
    \/ GaReturn
    \/ MainGotArtists
    \/ MainForUrl
    \/ ScenarioGasFetch
    \/ ScenarioGasSong
    \/ GasPaginate(ScenarioControlLists)
    \/ MainGotSongs
    \/ MainForSong
    \/ ExtractSong(ScenarioSongDocuments)
    \/ MainGotSong
    \/ ScenarioAssessOriginal
    \/ AssessTranslation
    \/ SaveSongs

SpecScenario == InitScenario /\ [][NextScenario]_vars

-----------------------------------------------------------------------------
(* Claims about get_artist_songs, checked under SpecSongs. *)

\* C5: at every point of a get_artist_songs traversal, and in the list it
\* returns, no song URL occurs twice.
C5_NoDuplicateSongUrls ==
    /\ NoDuplicates(gas_urls)
    /\ gas_ret.t = "list" => NoDuplicates(gas_ret.v)

\* the second page repeats the first link of the first page, after two links
\* were collected
C5_Witness ==
    /\ fetched = 2
    /\ Len(gas_urls) = 2
    /\ song.href # None
    /\ Origin \o song.href.v = gas_urls[1]
    /\ Contains(Strip(song.text), artist)

C6_Step ==
    (pc = "gas_songs" /\ Len(page_log') = Len(page_log) + 1) =>
        LET last == page_log'[Len(page_log')]
            next == SiteIsNext(last)
        IN  /\ (next /\ last.href # None) =>
                  /\ pc' = "gas_fetch"
                  /\ artist_url' = Origin \o last.href.v
            /\ ~next =>
                  /\ pc' = "gas_done"
                  /\ gas_ret' = List(gas_urls)
                  /\ artist_url' = artist_url
            /\ pc' = "gas_fetch" => next

C6_Count ==
    /\ (pc = "gas_done" /\ gas_ret.t = "list") =>
          /\ Len(page_log) = fetched
          /\ \A i \in DOMAIN page_log : SiteIsNext(page_log[i]) <=> i < fetched
    /\ pc \in {"gas_fetch", "gas_songs"} =>
          /\ Len(page_log) = IF pc = "gas_fetch" THEN fetched ELSE fetched - 1
          /\ \A i \in DOMAIN page_log : SiteIsNext(page_log[i])

\* C6: the traversal goes on to the link of the last pagination control
\* exactly while that control exists and its label contains "next" in any
\* case, and ends Done at the first page where it does not, so that the pages
\* fetched are those up to that page; the other controls play no part.
C6_FollowsNextExactly == [][C6_Step]_vars /\ []C6_Count

\* Done on the second page: the first page ended with a capitalised "next"
\* control, the second with a page number
C6_Witness ==
    /\ pc = "gas_done"
    /\ gas_ret.t = "list"
    /\ fetched = 2
    /\ Len(page_log) = 2
    /\ page_log[1].text = <<"Nastepna", " ", ">>">>
    /\ page_log[2].text = <<"2">>

\* C7: a failed fetch of any page makes the call return the failure signal,
\* never a list; a list is returned only by a traversal all of whose fetches
\* succeeded, and is then what was collected (empty when nothing was).
C7_FailureIsNotAList ==
    pc = "gas_done" =>
        /\ response # "ok" => gas_ret = False
        /\ gas_ret.t = "list" => (response = "ok" /\ gas_ret.v = gas_urls)
        /\ gas_ret.t \in {"bool", "list"}
        /\ False # List(<<>>)

\* the fetch of the second page fails after the first page gave a song URL
C7_Witness ==
    /\ pc = "gas_done"
    /\ fetched = 2
    /\ response \in {"exception", "http_error"}
    /\ gas_urls # <<>>
    /\ gas_ret = False

\* the conditions the claim puts on a song block, read off the page
C8_Qualifies(b, head) ==
    /\ b.title # None
    /\ b.href # None
    /\ Contains(b.text, Strip(SplitFirst(head.v, <<" ", "(">>)))
    /\ ~Contains(Origin \o b.href.v, <<".pl", "piosenka">>)
    /\ ~Contains(Origin \o b.href.v, <<"dodaj_tekst">>)

C8_Step ==
    (pc = "gas_songs" /\ songs_left' = songs_left - 1) =>
        LET b == song'
            seen == \E i \in DOMAIN gas_urls : gas_urls[i] = Origin \o b.href.v
        IN  IF C8_Qualifies(b, header) /\ ~seen
            THEN gas_urls' = Append(gas_urls, Origin \o b.href.v)
            ELSE gas_urls' = gas_urls

C8_Result ==
    /\ \A i \in DOMAIN gas_urls :
          /\ ~Contains(gas_urls[i], <<".pl", "piosenka">>)
          /\ ~Contains(gas_urls[i], <<"dodaj_tekst">>)
    /\ gas_ret.t = "list" => gas_ret.v = gas_urls

\* C8: a URL enters the list only from a song block whose title text contains
\* the artist's display name and whose URL has neither ".plpiosenka" nor
\* "dodaj_tekst"; every such block of a visited page puts its URL in the list,
\* at the end when it is new, so the list is in order of first occurrence.
C8_ExactlyTheQualifyingLinks == [][C8_Step]_vars /\ []C8_Result

\* two URLs returned from two pages, the last block read being an add-lyrics
\* link under the artist's name
C8_Witness ==
    /\ pc = "gas_done"
    /\ gas_ret.t = "list"
    /\ Len(gas_ret.v) = 2
    /\ fetched = 2
    /\ song.href = Str(<<"/", "dodaj_tekst", ",", "s1">>)
    /\ Contains(song.text, artist)

-----------------------------------------------------------------------------
(* Claims about get_artists, checked under SpecArtists. *)

\* the matching links of a page, as the claim reads them off the page
C9_Matching(links) ==
    LET kept == SelectSeq(links, LAMBDA h : h.t = "str" /\ \E i \in DOMAIN h.v : h.v[i] = "piosenki_")
    IN  [i \in DOMAIN kept |-> <<"https://tekstowo", ".pl">> \o kept[i].v]

C9_Step ==
    (pc = "ga_loop" /\ page' # page) =>
        /\ page' = page + 1
        /\ pc' = "ga_loop"
        /\ Len(ga_requests') = page
        /\ ga_requests'[page].url = ListingUrl(letter, page)
        /\ SubSeq(ga_requests', 1, page - 1) = ga_requests
        /\ ga_urls' = IF ga_requests'[page].status = "ok"
                      THEN ga_urls \o C9_Matching(ga_links')
                      ELSE ga_urls

C9_Result ==
    pc = "ga_done" =>
        /\ Len(ga_requests) = IF limit.v > 0 THEN limit.v ELSE 0
        /\ \A i \in DOMAIN ga_requests : ga_requests[i].url = ListingUrl(letter, i)
        /\ ga_ret = Tuple(<<List(ga_urls), PyInt(Len(ga_urls))>>)

\* C9: get_artists with page limit N requests the pages 1..N in increasing
\* order, each once; a page whose fetch fails adds nothing and the next page
\* is still requested; each fetched page adds its matching links in order,
\* duplicates kept; the count returned is the length of the list returned.
C9_PagesInOrderFailuresSkipped == [][C9_Step]_vars /\ []C9_Result

\* two pages: the first fails, the second gives the same artist link twice
C9_Witness ==
    /\ pc = "ga_done"
    /\ Len(ga_requests) = 2
    /\ ga_requests[1].status = "exception"
    /\ ga_requests[2].status = "ok"
    /\ Len(ga_urls) = 2
    /\ ga_urls[1] = ga_urls[2]
    /\ ga_ret.v[2] = PyInt(2)

\* the page limit is an integer, or a mapping with an integer for the letter
C10_ValidLimit ==
    \/ max_page_per_letter.t = "int"
    \/ /\ max_page_per_letter.t = "dict"
       /\ letter \in DOMAIN max_page_per_letter.v
       /\ max_page_per_letter.v[letter].t = "int"

\* C10: get_artists raises ValueError, having requested no page, whenever
\* the page limit is neither an integer nor a valid mapping for the letter
\* (a mapping without the letter included), and raises nothing otherwise.
C10_InvalidLimitIsValueError ==
    pc # "ga_limit" =>
        IF C10_ValidLimit
        THEN exc = "none"
        ELSE exc = "ValueError" /\ pc = "raised" /\ ga_requests = <<>>

-----------------------------------------------------------------------------
(* Claims about extract_song, checked under SpecExtract. *)

\* C3: for a request answered with a non-success status, extract_song
\* returns to its caller, raising nothing: empty lyrics, no translation and
\* no title.
C3_NonSuccessReturnsDegraded ==
    (pc # "es_call" /\ es_doc.status = "not_ok") =>
        /\ pc = "es_done"
        /\ exc = "none"
        /\ es_ret = Tuple(<<Str(<<>>), None, None>>)

\* C4: for a fetched document that lacks the title element, the lyrics
\* element or the translation container, extract_song returns to its caller,
\* raising nothing; without the container alone, it returns the lyrics and
\* the title with no translation.
C4_ParseFailureNeverPropagates ==
    (/\ pc # "es_call"
     /\ es_doc.status = "ok"
     /\ None \in {es_doc.title, es_doc.lyrics, es_doc.transl}) =>
        /\ pc = "es_done"
        /\ exc = "none"
        /\ (es_doc.title # None /\ es_doc.lyrics # None) =>
              es_ret = Tuple(<<Str(Strip(es_doc.lyrics.v)), None, Str(Strip(es_doc.title.v))>>)

-----------------------------------------------------------------------------
(* Claims about the run of __main__, checked under Spec. *)

\* C1: when get_artist_songs ends Failed for an artist, the run is not
\* aborted: the failure signal reaches the loop, no exception ends the
\* program, and the loop goes on to the artist URLs that follow.
C1_FailedArtistDoesNotAbort ==
    songs = False => (exc = "none" /\ pc # "raised")

\* C2: when the request for a song is answered with a non-success status,
\* no file is written for that song and the run goes on with the next song;
\* it does not stop at that song.
C2_FailedSongDoesNotAbort ==
    [][es_doc'.status = "not_ok" => (writes' = writes /\ pc' # "raised")]_vars

-----------------------------------------------------------------------------
(* Claims about save_songs, checked under SpecSave. *)

\* the name of a translation file
C11_IsTranslationName(name) == Contains(name, <<"__TRAN__">>)

\* the language is a str shorter than 3 and the text is longer than 10
C11_Qualifies(lang, text) ==
    /\ lang.t = "str"
    /\ Len(lang.v) < 3
    /\ text.t = "str"
    /\ Len(text.v) > 10

\* C11: save_songs opens exactly one original-content file when lang_original
\* is a string shorter than 3 and the original text is longer than 10
\* characters, and none otherwise; it opens exactly one translation file when
\* lang_translation is a string shorter than 3 and the translation is longer
\* than 10 characters, and none otherwise.
C11_FilesWrittenExactlyWhenQualifying ==
    pc # "main_save" =>
        /\ Cardinality({i \in DOMAIN writes : ~C11_IsTranslationName(writes[i])})
               = (IF C11_Qualifies(s_t, s) THEN 1 ELSE 0)
        /\ Cardinality({i \in DOMAIN writes : C11_IsTranslationName(writes[i])})
               = (IF C11_Qualifies(st_t, st) THEN 1 ELSE 0)
        /\ DOMAIN files = {writes[i] : i \in DOMAIN writes}

\* the original qualifies; the translation has a two-letter language and
\* exactly 10 characters, and only the original was written
C11_Witness ==
    /\ pc = "main_for_song"
    /\ C11_Qualifies(s_t, s)
    /\ st_t = Str(<<"p", "l">>)
    /\ st = Str(Chars(10))
    /\ Len(writes) = 1
    /\ ~C11_IsTranslationName(writes[1])

\* C12: save_songs returns True and raises nothing, for every title, original
\* text, translation (present or absent) and pair of classification results.
C12_AlwaysReturnsTrue ==
    pc # "main_save" => (pc = "main_for_song" /\ exc = "none")

-----------------------------------------------------------------------------
(* Claims about the whole program, checked under Spec. *)

\* C13: over a whole run no file name is opened for writing more than once,
\* also when the artist list holds the same URL twice or two songs share a
\* title and a language.
C13_NoNameWrittenTwice == NoDuplicates(writes)

-----------------------------------------------------------------------------
(* Claims about the run of two artists with one song each, checked under    *)
(* SpecScenario.                                                            *)

\* every call of save_songs opens one file, named by the title and "PL"
C14_Step ==
    pc = "main_save" =>
        writes' = Append(writes, CleanTitle(t.v) \o <<"__", "P", "L", ".txt">>)

\* at the end two files were opened, none of them a translation
C14_End ==
    pc = "exit" =>
        /\ Len(writes) = 2
        /\ \A i \in DOMAIN writes : ~Contains(writes[i], <<"__TRAN__">>)

-----------------------------------------------------------------------------
(* Claims about max_page_number_lut, checked under SpecLut. *)

\* the numbers written in decimal digits among the labels of the page
C15_Numbers ==
    {Decimal(lut_pages[i]) : i \in {j \in DOMAIN lut_pages :
        lut_pages[j] # <<>> /\ \A k \in DOMAIN lut_pages[j] : lut_pages[j][k] \in Digits}}

\* C15: max_page_number_lut returns the largest numeric label among the
\* pagination controls, other labels being ignored, 0 when there is no
\* control or none is numeric, and 0 without raising when the request fails;
\* it never returns a negative number.
C15_LargestNumericLabel ==
    /\ pc # "raised"
    /\ pc = "lut_done" =>
          /\ lut_ret.t = "int"
          /\ lut_ret.v >= 0
          /\ lut_status # "ok" => lut_ret.v = 0
          /\ lut_status = "ok" =>
                /\ \A n \in C15_Numbers : n <= lut_ret.v
                /\ lut_ret.v \in C15_Numbers \cup {0}

-----------------------------------------------------------------------------
(* Claims about the whole program, checked under Spec: throttling and order. *)

\* the delay of a function that waits before its request
C17_Delay(by) == IF by = "get_artists" THEN ListingDelay ELSE ArtistDelay

\* C17: a step makes at most one request, which has ended when the step
\* ends, and every request of get_artists and of get_artist_songs, the
\* requests of "next" pages included, comes immediately after its delay.
C17_DelayBeforeEveryFetch ==
    /\ Cardinality({i \in DOMAIN io : io[i].op = "get"}) <= 1
    /\ \A i \in DOMAIN io :
         (io[i].op = "get" /\ io[i].by \in {"get_artists", "get_artist_songs"}) =>
             /\ i > 1
             /\ io[i - 1].op = "sleep"
             /\ io[i - 1].by = io[i].by
             /\ io[i - 1].arg = <<C17_Delay(io[i].by)>>

\* the request of a second page of an artist, reached by a "next" control
C17_Witness ==
    /\ fetched = 2
    /\ Len(io) = 2
    /\ io[2].op = "get"
    /\ io[2].by = "get_artist_songs"
    /\ Len(ga_requests) = 2

-----------------------------------------------------------------------------
(* Claims about assess_language, checked under SpecAssess. *)

\* what a call with the argument song_text may leave: the value returned and
\* what was done to the world
C18_Call(song_text, returned, done) ==
    IF song_text.t # "str"
    THEN /\ returned = False
         /\ done = <<>>
    ELSE /\ Len(done) = 1
         /\ done[1].op = "detect"
         /\ done[1].arg[1] = song_text.v
         /\ IF done[1].arg[2] = LangDetectException
            THEN returned = False
            ELSE returned = done[1].arg[2] /\ returned.t = "str"

C18_Step ==
    /\ pc = "main_assess_s" => C18_Call(s, s_t', io')
    /\ pc = "main_assess_st" => C18_Call(st, st_t', io')
    /\ exc' = "none"
    /\ pc' # "raised"

\* C18: assess_language returns False without calling the classifier for an
\* argument that is no string, returns False when the classifier raises its
\* detection failure, returns the classifier's code unchanged otherwise, and
\* raises nothing.
C18_UndeterminedOrTheCode == [][C18_Step]_vars

\* the lyrics were classified and the absent translation was not
C18_Witness ==
    /\ pc = "main_save"
    /\ s = Str(Chars(11))
    /\ s_t = Str(<<"p", "l">>)
    /\ st = None
    /\ st_t = False
    /\ io = <<>>

\* the i-th call made for the current artist is the one the loops prescribe:
\* get_artist_songs first, then for the k-th song extract_song,
\* assess_language twice and save_songs
C19_InOrder(i) ==
    IF i = 1
    THEN /\ calls[1].fn = "get_artist_songs"
         /\ calls[1].args = <<urls[url_idx]>>
    ELSE LET k == ((i - 2) \div 4) + 1
             j == (i - 2) % 4
         IN  /\ songs.t = "list"
             /\ k <= song_idx
             /\ j = 0 => /\ calls[i].fn = "extract_song"
                         /\ calls[i].args = <<songs.v[k]>>
             /\ j = 1 => /\ calls[i].fn = "assess_language"
                         /\ k = song_idx => calls[i].args = <<s>>
             /\ j = 2 => /\ calls[i].fn = "assess_language"
                         /\ k = song_idx => calls[i].args = <<st>>
             /\ j = 3 => /\ calls[i].fn = "save_songs"
                         /\ k = song_idx => calls[i].args = <<t, s, st, s_t, st_t>>

\* no call for an artist before get_artists has returned the list
C19_ArtistsFirst ==
    calls # <<>> =>
        /\ ga_ret.t = "tuple"
        /\ urls = ga_ret.v[1].v
        /\ pc \notin {"main", "ga_limit", "ga_loop", "ga_done"}

\* get_artist_songs is called for the next url of the list, after every song
\* of the artist before went through its four calls
C19_NextArtist ==
    (pc = "main_for_url" /\ pc' = "gas_fetch") =>
        /\ url_idx' = url_idx + 1
        /\ artist_url' = urls[url_idx + 1]
        /\ calls # <<>> => Len(calls) = 1 + 4 * Len(songs.v)

\* C19: get_artists has returned before the first get_artist_songs; the
\* artists are taken in list order, each after all songs of the one before
\* were extracted, classified and saved; for each song the calls are
\* extract_song, assess_language of the lyrics, assess_language of the
\* translation, save_songs, the last one at most once.
C19_OrchestratorOrder ==
    /\ [](C19_ArtistsFirst)
    /\ [](\A i \in DOMAIN calls : C19_InOrder(i))
    /\ [][C19_NextArtist]_vars

\* the second song of the second artist has been saved
C19_Witness ==
    /\ pc = "main_for_song"
    /\ url_idx = 2
    /\ song_idx = 2
    /\ Len(calls) = 9
    /\ calls[9].fn = "save_songs"

-----------------------------------------------------------------------------
(* Claims about get_artist_songs as a running program, checked under        *)
(* SpecSongsFair.                                                           *)

\* every request but the first follows the "next" control of the page read
\* before it, and no page is requested again
C20_OneRequestPerPage ==
    /\ fetched \in {Len(page_log), Len(page_log) + 1}
    /\ pc = "gas_fetch" => fetched = Len(page_log)
    /\ \A i \in DOMAIN page_log : i < fetched => SiteIsNext(page_log[i])

\* the call has returned the list or False
C20_DoneOrFailed == pc = "gas_done" /\ (gas_ret.t = "list" \/ gas_ret = False)

\* C20: when the chain of "next" links from the artist URL is finite and
\* visits no page twice, get_artist_songs eventually returns, its list or
\* False, having requested each page of the chain at most once.
C20_TerminatesAlongFiniteChain == <>C20_DoneOrFailed /\ [](C20_OneRequestPerPage)

\* the list is returned from the last page of the longest chain
C20_Witness ==
    /\ pc = "gas_done"
    /\ gas_ret.t = "list"
    /\ fetched = MaxPages
    /\ Len(page_log) = MaxPages

=============================================================================
